---- MODULE Spec2Model ----
(***************************************************************************)
(* Model of the motion-driven stream controller                            *)
(* (scripts/motion_webrtc_monitor.py, utils/motion_webrtc_trigger.py) and  *)
(* of non-maximum suppression (utils/parse_detections.py).                 *)
(*                                                                         *)
(* Two threads run the monitor: the MQTT network-loop thread started by    *)
(* client.loop_start(), which runs on_message for each received message,   *)
(* and the main thread, which sleeps in a loop until KeyboardInterrupt.    *)
(* on_message is split at its one blocking point, the HTTP request inside  *)
(* trigger_webrtc_stream.                                                  *)
(***************************************************************************)
EXTENDS Integers, Sequences, FiniteSets, TLC

VARIABLES
    last_motion_time,   \* module global, motion_webrtc_monitor.py:16
    webrtc_enabled,     \* module global, motion_webrtc_monitor.py:17
    now,                \* the wall clock read by time.time(), in seconds
    netPc,              \* network-loop thread: "idle", "enable_call", "disable_call", "stopped"
    mainPc,             \* main thread: "loop", "stopping", "exited"
    inbox,              \* messages received on the topic, not yet given to on_message
    calls,              \* the trigger_webrtc_stream calls made so far: argument and time of call
    results,            \* outcome of each returned call: "ok" or "fail"
    boxes,              \* nms argument: sequence of [x1, y1, x2, y2]
    scores,             \* nms argument: one score per box
    iou_threshold,      \* nms argument, the rational <<numerator, denominator>>
    order,              \* nms local: candidate indices still to visit
    keep,               \* nms local: indices kept so far
    nmsPc,              \* nms: "off" (not called), "loop", "done"
    decoder,            \* which parser is called: "none", "yolo" (parse_yolo_output), "detr"
    output,             \* the parser's tensor output[0] as rows (transposed for yolo)
    conf_threshold,     \* the conf_threshold of the first and of the second call on output
    original_shape,     \* <<height, width>>, or <<>> for None
    detections          \* per call: its status ("pending", "ok", "IndexError"), the list
                        \* returned, and the order argsort gave inside it

monitorVars == <<last_motion_time, webrtc_enabled, now, netPc, mainPc, inbox, calls, results>>

nmsVars == <<boxes, scores, iou_threshold, order, keep, nmsPc>>

decodeVars == <<decoder, output, conf_threshold, original_shape, detections>>

vars == <<monitorVars, nmsVars, decodeVars>>

\* ---- program constants ----
MOTION_THRESHOLD == 1
MOTION_TIMEOUT == 5

\* ---- bounds of the model ----
MaxElapsed == 8     \* seconds of wall clock explored after start
MaxInbox == 1       \* messages waiting for the network thread
MaxDet == 2         \* longest detections list in a message
MaxCalls == 4       \* toggle calls recorded
MaxBoxes == 3       \* most boxes given to nms
MaxRows == 3        \* most rows of a tensor given to a parser

\* a parser call not made yet
Pending == [status |-> "pending", dets |-> <<>>, order |-> <<>>]

\* time.time() at program start: the epoch clock is far more than
\* MOTION_TIMEOUT past the initial last_motion_time of 0.
StartTime == MOTION_TIMEOUT + 1

\* What a message payload can be: a JSON object with a detections list of n
\* entries, a JSON object without the detections key, or bytes for which
\* decode / json.loads / .get / len raises.
Payloads ==
    [kind : {"record"}, n : 0..MaxDet]
        \cup {[kind |-> "nofield", n |-> 0], [kind |-> "garbage", n |-> 0]}

\* json.loads(msg.payload.decode()) and the later len() succeed
ParseOk(m) == m.kind # "garbage"

\* len(payload.get('detections', [])): a missing key yields the default []
DetectionCount(m) == IF m.kind = "record" THEN m.n ELSE 0

\* variant with a strict comparison
is_motion_detected_strict(n, threshold) == n > threshold

is_motion_detected(n, threshold) == n >= threshold

\* variant without the `if not webrtc_enabled` guard
EnableAlways == TRUE

\* `if not webrtc_enabled:` (line 27)
EnableNeeded == ~webrtc_enabled

\* variant with >= in place of >
TimeoutReached == webrtc_enabled /\ (now - last_motion_time >= MOTION_TIMEOUT)

\* variant without the `webrtc_enabled and` conjunct
TimeoutAlone == now - last_motion_time > MOTION_TIMEOUT

\* `if webrtc_enabled and (time.time() - last_motion_time > MOTION_TIMEOUT):` (line 32)
TimeoutExpired == webrtc_enabled /\ (now - last_motion_time > MOTION_TIMEOUT)

\* variant that keeps the old phase when the request fails
PhaseRolledBack(enable, ok) == IF ok THEN enable ELSE ~enable

\* the value assigned to webrtc_enabled after trigger_webrtc_stream returns
\* (lines 29 and 34); trigger_webrtc_stream swallows the request's exception,
\* so the assignment does not depend on the outcome
PhaseAfterToggle(enable, ok) == enable

Init ==
    /\ last_motion_time = 0
    /\ webrtc_enabled = FALSE
    /\ now = StartTime
    /\ netPc = "idle"
    /\ mainPc = "loop"
    /\ inbox = <<>>
    /\ calls = <<>>
    /\ results = <<>>
    /\ boxes = <<>>
    /\ scores = <<>>
    /\ iou_threshold = <<0, 1>>
    /\ order = <<>>
    /\ keep = <<>>
    /\ nmsPc = "off"
    /\ decoder = "none"
    /\ output = <<>>
    /\ conf_threshold = <<0, 0>>
    /\ original_shape = <<>>
    /\ detections = <<Pending, Pending>>

\* The broker delivers a message on the subscribed topic.
Arrive ==
    /\ mainPc = "loop"
    /\ Len(inbox) < MaxInbox
    /\ \E m \in Payloads : inbox' = Append(inbox, m)
    /\ UNCHANGED <<last_motion_time, webrtc_enabled, now, netPc, mainPc, calls, results, nmsVars, decodeVars>>

\* on_message up to its return or up to the HTTP request of the toggle call.
OnMessage ==
    /\ netPc = "idle"
    /\ inbox # <<>>
    /\ Len(calls) < MaxCalls
    /\ inbox' = Tail(inbox)
    /\ LET m == Head(inbox) IN
         IF ~ParseOk(m)
         THEN \* except Exception: print
              UNCHANGED <<last_motion_time, webrtc_enabled, netPc, calls>>
         ELSE IF is_motion_detected(DetectionCount(m), MOTION_THRESHOLD)
         THEN /\ last_motion_time' = now
              /\ IF EnableNeeded
                 THEN /\ calls' = Append(calls, [enable |-> TRUE, at |-> now])
                      /\ netPc' = "enable_call"
                 ELSE UNCHANGED <<netPc, calls>>
              /\ UNCHANGED webrtc_enabled
         ELSE /\ IF TimeoutExpired
                 THEN /\ calls' = Append(calls, [enable |-> FALSE, at |-> now])
                      /\ netPc' = "disable_call"
                 ELSE UNCHANGED <<netPc, calls>>
              /\ UNCHANGED <<last_motion_time, webrtc_enabled>>
    /\ UNCHANGED <<now, mainPc, results, nmsVars, decodeVars>>

\* requests.post returns or raises; trigger_webrtc_stream returns either way
\* and on_message assigns webrtc_enabled.
ToggleReturn ==
    /\ netPc \in {"enable_call", "disable_call"}
    /\ \E ok \in BOOLEAN :
         /\ results' = Append(results, IF ok THEN "ok" ELSE "fail")
         /\ webrtc_enabled' = PhaseAfterToggle(netPc = "enable_call", ok)
    /\ netPc' = "idle"
    /\ UNCHANGED <<last_motion_time, now, mainPc, inbox, calls, nmsVars, decodeVars>>

\* variant in which the main loop itself tests the timeout and disables
MainSleepWithCheck ==
    /\ mainPc = "loop"
    /\ now < StartTime + MaxElapsed
    /\ now' = now + 1
    /\ IF webrtc_enabled /\ now' - last_motion_time > MOTION_TIMEOUT /\ Len(calls) < MaxCalls
       THEN /\ webrtc_enabled' = FALSE
            /\ calls' = Append(calls, [enable |-> FALSE, at |-> now'])
       ELSE UNCHANGED <<webrtc_enabled, calls>>
    /\ UNCHANGED <<last_motion_time, netPc, mainPc, inbox, results, nmsVars, decodeVars>>

\* One pass of `while True: time.sleep(1)` in main.
MainSleep ==
    /\ mainPc = "loop"
    /\ now < StartTime + MaxElapsed
    /\ now' = now + 1
    /\ UNCHANGED <<last_motion_time, webrtc_enabled, netPc, mainPc, inbox, calls, results, nmsVars, decodeVars>>

\* KeyboardInterrupt: main calls client.loop_stop(), which asks the network
\* thread to end and joins it.
MainInterrupt ==
    /\ mainPc = "loop"
    /\ mainPc' = "stopping"
    /\ UNCHANGED <<last_motion_time, webrtc_enabled, now, netPc, inbox, calls, results, nmsVars, decodeVars>>

\* The network thread sees the terminate flag between two callbacks.
NetStop ==
    /\ mainPc = "stopping"
    /\ netPc = "idle"
    /\ netPc' = "stopped"
    /\ UNCHANGED <<last_motion_time, webrtc_enabled, now, mainPc, inbox, calls, results, nmsVars, decodeVars>>

\* The join returns; client.disconnect(); main returns.
MainExit ==
    /\ mainPc = "stopping"
    /\ netPc = "stopped"
    /\ mainPc' = "exited"
    /\ UNCHANGED <<last_motion_time, webrtc_enabled, now, netPc, inbox, calls, results, nmsVars, decodeVars>>

Next ==
    \/ Arrive
    \/ OnMessage
    \/ ToggleReturn
    \/ MainSleep
    \/ MainInterrupt
    \/ NetStop
    \/ MainExit

Spec == Init /\ [][Next]_vars

\* ------------------------------------------------------------------
\* Non-maximum suppression (utils/parse_detections.py, nms)
\* ------------------------------------------------------------------
\* Coordinates and scores are integers and the threshold a rational, so every
\* comparison of the code is computed exactly.  Indices are 1-based here and
\* 0-based in the code.

Max(a, b) == IF a >= b THEN a ELSE b

Min(a, b) == IF a <= b THEN a ELSE b

\* Inputs explored: boxes from a left edge to a right edge along x, in either
\* order (x2 < x1 gives a negative width, x2 = x1 a zero area), with a fixed
\* extent along y.  Pairs of them have IoU 0, 1/2, 1 or a zero union.
LeftEdges == {0, 1}

RightEdges == {0, 1, 2}

BoxSet == [x1 : LeftEdges, y1 : {0}, x2 : RightEdges, y2 : {1}]

ScoreSet == {1, 2}

\* 0, the default 0.45, and 1/2
Thresholds == {<<0, 1>>, <<9, 20>>, <<1, 2>>}

\* areas = (x2 - x1) * (y2 - y1)
Area(b) == (b.x2 - b.x1) * (b.y2 - b.y1)

\* inter = max(0, xx2 - xx1) * max(0, yy2 - yy1)
Inter(a, b) ==
    Max(0, Min(a.x2, b.x2) - Max(a.x1, b.x1)) * Max(0, Min(a.y2, b.y2) - Max(a.y1, b.y1))

\* the divisor areas[i] + areas[order[1:]] - inter
Union(a, b) == Area(a) + Area(b) - Inter(a, b)

\* the floating-point test `inter / union <= iou_threshold`: a zero divisor
\* gives nan (0/0) or inf (x/0), for which <= is False
IoULeq(a, b, thr) ==
    LET i == Inter(a, b)
        u == Union(a, b)
    IN  IF u = 0 THEN FALSE
        ELSE IF u > 0 THEN i * thr[2] <= thr[1] * u
        ELSE i * thr[2] >= thr[1] * u

\* the permutations scores.argsort()[::-1] can return: indices by descending
\* score; the position of equal scores is not fixed by the default sort kind
DescendingOrders(sc) ==
    {p \in [1..Len(sc) -> 1..Len(sc)] :
        /\ \A a, b \in 1..Len(sc) : a # b => p[a] # p[b]
        /\ \A a, b \in 1..Len(sc) : a < b => sc[p[a]] >= sc[p[b]]}

\* positions k of order[1:] with iou[k] <= iou_threshold (np.where)
PassingPositions(ord, bx, thr) ==
    SelectSeq([k \in 1..(Len(ord) - 1) |-> k],
              LAMBDA k : IoULeq(bx[ord[1]], bx[ord[k + 1]], thr))

\* variant indexing order[inds], without the shift past order[0]
SurvivorsUnshifted(ord, bx, thr) ==
    LET inds == PassingPositions(ord, bx, thr)
    IN  [n \in 1..Len(inds) |-> ord[inds[n]]]

\* variant testing every candidate, order[0] included, and indexing order[inds]
SurvivorsWithHead(ord, bx, thr) ==
    SelectSeq(ord, LAMBDA j : IoULeq(bx[ord[1]], bx[j], thr))

\* order[inds + 1]
Survivors(ord, bx, thr) ==
    LET inds == PassingPositions(ord, bx, thr)
    IN  [n \in 1..Len(inds) |-> ord[inds[n] + 1]]

InitNms ==
    /\ last_motion_time = 0
    /\ webrtc_enabled = FALSE
    /\ now = StartTime
    /\ netPc = "idle"
    /\ mainPc = "loop"
    /\ inbox = <<>>
    /\ calls = <<>>
    /\ results = <<>>
    /\ decoder = "none"
    /\ output = <<>>
    /\ conf_threshold = <<0, 0>>
    /\ original_shape = <<>>
    /\ detections = <<Pending, Pending>>
    /\ \E n \in 0..MaxBoxes :
         /\ boxes \in [1..n -> BoxSet]
         /\ scores \in [1..n -> ScoreSet]
    /\ iou_threshold \in Thresholds
    /\ order \in DescendingOrders(scores)
    /\ keep = <<>>
    /\ nmsPc = "loop"

\* one pass of `while order.size > 0:`
NmsIter ==
    /\ nmsPc = "loop"
    /\ order # <<>>
    /\ keep' = Append(keep, order[1])
    /\ order' = Survivors(order, boxes, iou_threshold)
    /\ UNCHANGED <<boxes, scores, iou_threshold, nmsPc, monitorVars, decodeVars>>

\* `return keep`
NmsReturn ==
    /\ nmsPc = "loop"
    /\ order = <<>>
    /\ nmsPc' = "done"
    /\ UNCHANGED <<boxes, scores, iou_threshold, order, keep, monitorVars, decodeVars>>

NextNms ==
    \/ NmsIter
    \/ NmsReturn

SpecNms == InitNms /\ [][NextNms]_vars

\* nms is a loop of one thread that nothing suspends: it keeps running
SpecNmsFair == SpecNms /\ WF_vars(NextNms)

\* ------------------------------------------------------------------
\* The two parsers (utils/parse_detections.py)
\* ------------------------------------------------------------------
\* A dense-grid row is <<cx, cy, w, h, score_0, score_1>>, a query-set row
\* <<x1, y1, x2, y2, confidence, class_id>>.  Corner coordinates of the dense
\* grid are held in halves (2*cx - w stands for cx - w/2), and every returned
\* coordinate is the exact rational [num, den] with den > 0.

\* input_shape as <<height, width>>
InputShape == <<2, 2>>

\* original_shape: None, or a target that stretches x by 3/2 and shrinks y by 1/2
OriginalShapes == {<<>>, <<1, 3>>}

YoloBoxParts == {<<2, 1, 4, 2>>, <<3, 1, 4, 2>>, <<2, 1, 1, 0>>, <<2, 1, -1, 2>>}

YoloScoreParts == {<<0, 0>>, <<1, 0>>, <<1, 2>>}

YoloRows == {b \o sc : b \in YoloBoxParts, sc \in YoloScoreParts}

\* rows of the given width: 6 is the query-set encoding, 5 lacks the
\* class_id column and 7 has one column more
DetrWidths == {5, 6, 7}

DetrRowsOfWidth(width) ==
    {SubSeq(<<x, 0, 2, 1, c, 1 - x, 0>>, 1, width) : x \in {0, 1}, c \in {0, 1, 2}}

ConfThresholds == {0, 1, 2}

\* np.max(scores, axis=1) of one row
YoloConfidence(row) ==
    LET sc == SubSeq(row, 5, Len(row))
    IN  CHOOSE m \in {sc[k] : k \in 1..Len(sc)} : \A k \in 1..Len(sc) : sc[k] <= m

\* np.argmax(scores, axis=1) of one row: the first column holding the maximum
YoloClassId(row) ==
    LET sc == SubSeq(row, 5, Len(row))
    IN  (CHOOSE k \in 1..Len(sc) :
            /\ sc[k] = YoloConfidence(row)
            /\ \A l \in 1..(k - 1) : sc[l] # sc[k]) - 1

\* variant with >= in place of >
YoloPassesInclusive(confidence, threshold) == confidence >= threshold

\* mask = confidences > conf_threshold
YoloPasses(confidence, threshold) == confidence > threshold

\* boxes[mask], confidences[mask], class_ids[mask]
YoloFiltered(out, conf) ==
    SelectSeq(out, LAMBDA r : YoloPasses(YoloConfidence(r), conf))

\* variant with the signs of the two x corners exchanged
CenterToCornerSwapped(row) ==
    [x1 |-> 2 * row[1] + row[3], y1 |-> 2 * row[2] - row[4],
     x2 |-> 2 * row[1] - row[3], y2 |-> 2 * row[2] + row[4]]

\* x1 = x_center - w / 2, ..., in halves
CenterToCorner(row) ==
    [x1 |-> 2 * row[1] - row[3], y1 |-> 2 * row[2] - row[4],
     x2 |-> 2 * row[1] + row[3], y2 |-> 2 * row[2] + row[4]]

\* a coordinate c/den multiplied by original_shape[axis] / input_shape[axis]
\* when original_shape is given (axis 1 is the height, 2 the width)
Rescale(c, den, original, axis) ==
    IF original = <<>> THEN [num |-> c, den |-> den]
    ELSE [num |-> c * original[axis], den |-> den * InputShape[axis]]

\* the loop of nms as a function: the indices kept, in the order kept
RECURSIVE NmsKeep(_, _, _)
NmsKeep(ord, bx, thr) ==
    IF ord = <<>> THEN <<>>
    ELSE <<ord[1]>> \o NmsKeep(Survivors(ord, bx, thr), bx, thr)

\* the dict appended for one kept row
YoloDetection(row, original) ==
    LET c == CenterToCorner(row)
    IN  [x1 |-> Rescale(c.x1, 2, original, 2), y1 |-> Rescale(c.y1, 2, original, 1),
         x2 |-> Rescale(c.x2, 2, original, 2), y2 |-> Rescale(c.y2, 2, original, 1),
         confidence |-> YoloConfidence(row), class_id |-> YoloClassId(row)]

\* the rows parse_yolo_output returns detections for, in the order returned,
\* when scores.argsort()[::-1] yields ord
YoloKeptRows(out, conf, iou, ord) ==
    LET rows == YoloFiltered(out, conf)
        corners == [n \in 1..Len(rows) |-> CenterToCorner(rows[n])]
        kept == NmsKeep(ord, corners, iou)
    IN  [n \in 1..Len(kept) |-> rows[kept[n]]]

\* the confidences array given to nms as scores
YoloConfidences(out, conf) ==
    LET rows == YoloFiltered(out, conf)
    IN  [n \in 1..Len(rows) |-> YoloConfidence(rows[n])]

\* variant with <= in place of <
DetrSkipsInclusive(confidence, threshold) == confidence <= threshold

\* `if confidence < conf_threshold: continue`
DetrSkips(confidence, threshold) == confidence < threshold

DetrDetection(row, original) ==
    [x1 |-> Rescale(row[1], 1, original, 2), y1 |-> Rescale(row[2], 1, original, 1),
     x2 |-> Rescale(row[3], 1, original, 2), y2 |-> Rescale(row[4], 1, original, 1),
     confidence |-> row[5], class_id |-> row[6]]

\* parse_detr_output: det[4] is read in every row and det[5] in every row not
\* skipped; an index past the row's width raises IndexError
DetrResult(out, conf, original) ==
    LET rows == SelectSeq(out, LAMBDA r : Len(r) < 5 \/ ~DetrSkips(r[5], conf))
    IN  IF \E n \in 1..Len(rows) : Len(rows[n]) < 6
        THEN [status |-> "IndexError", dets |-> <<>>, order |-> <<>>]
        ELSE [status |-> "ok",
              dets |-> [n \in 1..Len(rows) |-> DetrDetection(rows[n], original)],
              order |-> <<>>]

InitDecode ==
    /\ last_motion_time = 0
    /\ webrtc_enabled = FALSE
    /\ now = StartTime
    /\ netPc = "idle"
    /\ mainPc = "loop"
    /\ inbox = <<>>
    /\ calls = <<>>
    /\ results = <<>>
    /\ boxes = <<>>
    /\ scores = <<>>
    /\ iou_threshold = <<9, 20>>
    /\ order = <<>>
    /\ keep = <<>>
    /\ nmsPc = "off"
    /\ decoder \in {"yolo", "detr"}
    /\ \E n \in 0..MaxRows :
         IF decoder = "yolo"
         THEN output \in [1..n -> YoloRows]
         ELSE \E width \in DetrWidths : output \in [1..n -> DetrRowsOfWidth(width)]
    /\ conf_threshold \in {t \in ConfThresholds \X ConfThresholds : t[1] < t[2]}
    /\ original_shape \in OriginalShapes
    /\ detections = <<Pending, Pending>>

\* the k-th call is due: the first, then the second
CallDue(k) ==
    /\ detections[k].status = "pending"
    /\ k = 2 => detections[1].status # "pending"

\* parse_yolo_output(output, conf_threshold[k], iou_threshold, input_shape,
\* original_shape).  The order argsort gives to equal confidences is any, but
\* the same for the same confidences array.
ParseYolo(k) ==
    /\ decoder = "yolo"
    /\ CallDue(k)
    /\ LET confs == YoloConfidences(output, conf_threshold[k])
       IN  \E ord \in DescendingOrders(confs) :
             /\ (k = 2 /\ YoloConfidences(output, conf_threshold[1]) = confs)
                    => ord = detections[1].order
             /\ LET rows == YoloKeptRows(output, conf_threshold[k], iou_threshold, ord)
                IN  detections' = [detections EXCEPT ![k] =
                        [status |-> "ok",
                         dets |-> [n \in 1..Len(rows) |-> YoloDetection(rows[n], original_shape)],
                         order |-> ord]]
    /\ UNCHANGED <<decoder, output, conf_threshold, original_shape, monitorVars, nmsVars>>

\* parse_detr_output(output, conf_threshold[k], input_shape, original_shape)
ParseDetr(k) ==
    /\ decoder = "detr"
    /\ CallDue(k)
    /\ detections' = [detections EXCEPT ![k] = DetrResult(output, conf_threshold[k], original_shape)]
    /\ UNCHANGED <<decoder, output, conf_threshold, original_shape, monitorVars, nmsVars>>

NextDecode ==
    \/ \E k \in {1, 2} : ParseYolo(k)
    \/ \E k \in {1, 2} : ParseDetr(k)

SpecDecode == InitDecode /\ [][NextDecode]_vars

\* ------------------------------------------------------------------
\* Properties of the stream controller
\* ------------------------------------------------------------------

\* this step is on_message taking the message at the head of the inbox
Delivered == netPc = "idle" /\ inbox # <<>> /\ inbox' = Tail(inbox)

\* this step is the return of the pending trigger_webrtc_stream call
Returned == netPc \in {"enable_call", "disable_call"} /\ netPc' = "idle"

Qualifying(m) == m.kind = "record" /\ m.n >= MOTION_THRESHOLD

\* C1: an observation with detection_count >= motion_threshold handled while
\* Idle issues exactly one toggle(true), records the time of the observation
\* as last_motion_time, and the return of that call makes the controller
\* Active without a further call.
C1_IdleQualifyingEnables ==
    [][ /\ (Delivered /\ ~webrtc_enabled /\ Qualifying(Head(inbox)))
            => /\ calls' = Append(calls, [enable |-> TRUE, at |-> now])
               /\ last_motion_time' = now
               /\ netPc' = "enable_call"
        /\ (Returned /\ netPc = "enable_call")
            => /\ webrtc_enabled'
               /\ calls' = calls
               /\ last_motion_time' = last_motion_time ]_vars

\* the controller is Active after exactly one enable, issued by an observation
C1_Witness ==
    /\ webrtc_enabled
    /\ netPc = "idle"
    /\ Len(calls) = 1
    /\ calls[1].enable
    /\ last_motion_time = calls[1].at

\* C2: a qualifying observation handled while Active refreshes
\* last_motion_time and issues no toggle; the history of calls never holds two
\* enables in a row.
C2_ActiveQualifyingNoToggle ==
    /\ [][ (Delivered /\ webrtc_enabled /\ Qualifying(Head(inbox)))
             => /\ calls' = calls
                /\ netPc' = "idle"
                /\ webrtc_enabled'
                /\ last_motion_time' = now ]_vars
    /\ [](\A k \in 1..(Len(calls) - 1) : ~(calls[k].enable /\ calls[k + 1].enable))

\* Active, one enable in all, and a later qualifying observation refreshed the time
C2_Witness ==
    /\ webrtc_enabled
    /\ netPc = "idle"
    /\ Len(calls) = 1
    /\ calls[1].enable
    /\ last_motion_time >= calls[1].at + 2

\* C3: in silence (no message waiting, no handler running) a tick of the main
\* loop that finds the timeout expired disables the stream.
C3_TickDisablesInSilence ==
    [][ ( /\ mainPc = "loop"
          /\ now' = now + 1
          /\ netPc = "idle"
          /\ inbox = <<>>
          /\ webrtc_enabled
          /\ now' - last_motion_time > MOTION_TIMEOUT )
        => (~webrtc_enabled' \/ netPc' = "disable_call") ]_vars

\* C4: toggle(false) is issued only while Active with more than MOTION_TIMEOUT
\* elapsed since last_motion_time, and the controller goes from Active to Idle
\* only by the return of that one call.
C4_DisableOnlyAfterTimeout ==
    [][ /\ (calls' # calls /\ ~calls'[Len(calls')].enable)
            => /\ webrtc_enabled
               /\ now - last_motion_time > MOTION_TIMEOUT
               /\ calls' = Append(calls, [enable |-> FALSE, at |-> now])
               /\ netPc' = "disable_call"
        /\ (webrtc_enabled /\ ~webrtc_enabled')
            => /\ netPc = "disable_call"
               /\ calls' = calls
               /\ ~calls[Len(calls)].enable
               /\ Len(results') = Len(calls) ]_vars

\* the stream was enabled, then disabled after the timeout
C4_Witness ==
    /\ ~webrtc_enabled
    /\ netPc = "idle"
    /\ Len(calls) = 2
    /\ ~calls[2].enable
    /\ calls[2].at - last_motion_time > MOTION_TIMEOUT

\* C5: the monitor never exits with an enable as its last toggle call.
C5_ExitNeverLeavesEnabled ==
    mainPc = "exited" => (calls = <<>> \/ ~calls[Len(calls)].enable)

\* C6: a record without the detections field changes nothing and issues no
\* toggle, whatever the controller state.
C6_MissingFieldSkipped ==
    [][ (Delivered /\ Head(inbox).kind = "nofield")
        => UNCHANGED <<webrtc_enabled, last_motion_time, calls, netPc>> ]_vars

\* C7: when a toggle call fails the phase is the one a success would have
\* given, no call is issued for it again, the network thread is ready for the
\* next message, and the call after a failed one is never of the same kind.
C7_ToggleFailureKeepsPhase ==
    /\ [][ (Returned /\ results' = Append(results, "fail"))
             => /\ webrtc_enabled' = calls[Len(calls)].enable
                /\ calls' = calls
                /\ mainPc' = mainPc ]_vars
    /\ [](\A k \in 1..Len(results) :
            (results[k] = "fail" /\ k < Len(calls))
                => calls[k + 1].enable # calls[k].enable)

\* a failed enable left the controller Active, and a later observation was handled
C7_Witness ==
    /\ Len(calls) = 1
    /\ results = <<"fail">>
    /\ calls[1].enable
    /\ webrtc_enabled
    /\ last_motion_time > calls[1].at

\* C8: a toggle call that has not returned does not keep the next waiting
\* observation from being handled.
C8_PendingToggleDoesNotBlockIngest ==
    (netPc \in {"enable_call", "disable_call"} /\ inbox # <<>> /\ Len(calls) < MaxCalls)
        => ENABLED OnMessage

\* C9: every step that changes webrtc_enabled or last_motion_time is a step of
\* the network thread's handler (taking a message, or returning from the
\* toggle call); no step of the main thread (which advances the clock while
\* sleeping, or moves mainPc) changes them, in particular not while a handler
\* is between its read and its write of webrtc_enabled.
C9_SingleWriter ==
    [][ (webrtc_enabled' # webrtc_enabled \/ last_motion_time' # last_motion_time \/ calls' # calls)
        => /\ (Delivered \/ Returned)
           /\ mainPc' = mainPc
           /\ now' = now ]_vars

\* the main thread ran (a sleep elapsed) while a handler was inside its toggle call
C9_Witness ==
    /\ netPc = "enable_call"
    /\ mainPc = "loop"
    /\ now > calls[Len(calls)].at

\* ------------------------------------------------------------------
\* Properties of nms
\* ------------------------------------------------------------------

\* IoU as the specification defines it (0 for a zero union) is at most thr
SpecIoULeq(a, b, thr) ==
    LET i == Inter(a, b)
        u == Union(a, b)
    IN  IF u = 0 THEN 0 <= thr[1]
        ELSE IF u > 0 THEN i * thr[2] <= thr[1] * u
        ELSE i * thr[2] >= thr[1] * u

\* C10: the indices nms keeps are distinct indices of the input, and every
\* two of them have IoU <= iou_threshold.
C10_KeepDistinctAndSeparated ==
    /\ \A k \in 1..Len(keep) : keep[k] \in 1..Len(boxes)
    /\ \A k, l \in 1..Len(keep) : k # l => keep[k] # keep[l]
    /\ \A k, l \in 1..Len(keep) :
         k # l => SpecIoULeq(boxes[keep[k]], boxes[keep[l]], iou_threshold)

\* nms returned with one box suppressed and two overlapping boxes kept
C10_Witness ==
    /\ nmsPc = "done"
    /\ Len(boxes) = 3
    /\ Len(keep) = 2
    /\ Inter(boxes[keep[1]], boxes[keep[2]]) > 0

InSeq(x, s) == \E k \in 1..Len(s) : s[k] = x

\* C16: a candidate whose union area with the just-kept box is zero is not
\* removed by that pass of the loop (its IoU counts as 0, which is within any
\* threshold >= 0).
C16_ZeroUnionNotSuppressed ==
    [][ (nmsPc = "loop" /\ keep' # keep /\ iou_threshold[1] >= 0)
        => \A k \in 2..Len(order) :
             Union(boxes[order[1]], boxes[order[k]]) = 0 => InSeq(order[k], order') ]_vars

\* C17: when the two highest-scoring boxes have equal scores and overlap
\* with IoU > iou_threshold, the one with the smaller index is kept and the
\* other is not.
C17_TieKeepsSmallerIndex ==
    nmsPc = "done" =>
        \A i, j \in 1..Len(boxes) :
            ( /\ i < j
              /\ scores[i] = scores[j]
              /\ \A k \in 1..Len(boxes) : k \notin {i, j} => scores[k] < scores[i]
              /\ Union(boxes[i], boxes[j]) # 0
              /\ ~IoULeq(boxes[i], boxes[j], iou_threshold) )
            => (InSeq(i, keep) /\ ~InSeq(j, keep))

\* C18: the first index kept has the highest score, and an index is left out
\* of the result only if a kept index with a score at least as high has
\* IoU > iou_threshold with it.
C18_GreedyMaximal ==
    nmsPc = "done" =>
        /\ Len(boxes) > 0 =>
             (keep # <<>> /\ \A j \in 1..Len(boxes) : scores[keep[1]] >= scores[j])
        /\ \A j \in 1..Len(boxes) :
             ~InSeq(j, keep) =>
                \E k \in 1..Len(keep) :
                    /\ scores[keep[k]] >= scores[j]
                    /\ ~SpecIoULeq(boxes[keep[k]], boxes[j], iou_threshold)

\* C19: every pass of the loop takes the kept index out of the candidates
\* and leaves fewer of them, nms returns after at most N passes, and an empty
\* input returns an empty list.
C19_NmsTerminates ==
    /\ [][ keep' # keep
             => /\ Len(order') < Len(order)
                /\ ~InSeq(order[1], order') ]_vars
    /\ [](Len(keep) + Len(order) <= Len(boxes))
    /\ []((nmsPc = "done" /\ boxes = <<>>) => keep = <<>>)
    /\ <>(nmsPc = "done")

\* nms returned after as many passes as there are boxes
C19_Witness ==
    /\ nmsPc = "done"
    /\ Len(boxes) = MaxBoxes
    /\ Len(keep) = MaxBoxes

\* the toggle calls made so far alternate, starting with an enable
CallsAlternate == \A k \in 1..Len(calls) : calls[k].enable = (k % 2 = 1)

\* argument of the most recent toggle call, False if none was made
LastCallArg == IF calls = <<>> THEN FALSE ELSE calls[Len(calls)].enable

\* C20 as stated: the toggle calls alternate starting with an enable, and in
\* every state webrtc_enabled equals the argument of the most recent call.
C20_FlagEqualsLastCallAlways ==
    /\ CallsAlternate
    /\ webrtc_enabled = LastCallArg

\* C20 amended: the toggle calls alternate starting with an enable; whenever
\* no toggle call is in progress webrtc_enabled equals the argument of the
\* most recent call, and while one is in progress webrtc_enabled still holds
\* the opposite value, being assigned after the call returns.
C20_FlagEqualsLastReturnedCall ==
    /\ CallsAlternate
    /\ netPc \in {"idle", "stopped"} => webrtc_enabled = LastCallArg
    /\ netPc \in {"enable_call", "disable_call"} =>
          /\ webrtc_enabled = ~LastCallArg
          /\ LastCallArg = (netPc = "enable_call")
    /\ Len(results) = Len(calls) - (IF netPc \in {"enable_call", "disable_call"} THEN 1 ELSE 0)

\* enable, disable and enable again have all returned, with a failure among them
C20_Witness ==
    /\ Len(calls) = 3
    /\ netPc = "idle"
    /\ webrtc_enabled
    /\ \E k \in 1..3 : results[k] = "fail"

\* ------------------------------------------------------------------
\* Properties of the parsers
\* ------------------------------------------------------------------

Returned1(k) == detections[k].status # "pending"

\* a <= b for rationals with positive denominators
RatLeq(a, b) == a.num * b.den <= b.num * a.den

\* C11: with t1 < t2 and all else equal, every detection returned at
\* threshold t2 is also returned at threshold t1.
C11_MonotonicFiltering ==
    (detections[1].status = "ok" /\ detections[2].status = "ok")
        => \A n \in 1..Len(detections[2].dets) :
              \E m \in 1..Len(detections[1].dets) :
                  detections[1].dets[m] = detections[2].dets[n]

\* C12: parse_yolo_output returns without error; every detection has
\* confidence > conf_threshold, there are no more detections than rows whose
\* maximum score exceeds the threshold, and when no row does (an empty tensor
\* included) the result is the empty list.
C12_YoloStrictThreshold ==
    \A k \in {1, 2} :
        (decoder = "yolo" /\ Returned1(k)) =>
            /\ detections[k].status = "ok"
            /\ \A n \in 1..Len(detections[k].dets) :
                  detections[k].dets[n].confidence > conf_threshold[k]
            /\ Len(detections[k].dets)
                  <= Cardinality({n \in 1..Len(output) :
                                     YoloConfidence(output[n]) > conf_threshold[k]})
            /\ (\A n \in 1..Len(output) : YoloConfidence(output[n]) <= conf_threshold[k])
                  => detections[k].dets = <<>>

\* a row whose maximum equals the threshold was dropped and another row returned
C12_Witness ==
    /\ decoder = "yolo"
    /\ detections[1].status = "ok"
    /\ detections[1].dets # <<>>
    /\ \E n \in 1..Len(output) : YoloConfidence(output[n]) = conf_threshold[1]

\* C13: for a tensor of query-set shape parse_detr_output returns exactly the
\* rows with confidence >= conf_threshold, one detection each, in row order.
C13_DetrExactFilter ==
    \A k \in {1, 2} :
        (decoder = "detr" /\ Returned1(k) /\ \A n \in 1..Len(output) : Len(output[n]) = 6) =>
            LET rows == SelectSeq(output, LAMBDA r : r[5] >= conf_threshold[k])
            IN  /\ detections[k].status = "ok"
                /\ Len(detections[k].dets) = Len(rows)
                /\ \A n \in 1..Len(rows) :
                      detections[k].dets[n] = DetrDetection(rows[n], original_shape)

\* two rows with the same box were both returned, one of them with confidence
\* equal to the threshold
C13_Witness ==
    /\ decoder = "detr"
    /\ detections[1].status = "ok"
    /\ \E n, m \in 1..Len(detections[1].dets) :
          /\ n # m
          /\ detections[1].dets[n].x1 = detections[1].dets[m].x1
          /\ detections[1].dets[n].confidence = conf_threshold[1]

\* C14: a tensor whose rows are not 6 wide, given to parse_detr_output, is
\* rejected: the call never returns detections for it.
C14_MisShapedIsRejected ==
    \A k \in {1, 2} :
        (decoder = "detr" /\ Returned1(k) /\ \E n \in 1..Len(output) : Len(output[n]) # 6)
            => (detections[k].status # "ok" \/ detections[k].dets = <<>>)

\* C15: every detection of parse_yolo_output that comes from a row with
\* w >= 0 and h >= 0 has x1 <= x2 and y1 <= y2, rescaled or not.
C15_CornersOrdered ==
    \A k \in {1, 2} :
        (decoder = "yolo" /\ detections[k].status = "ok") =>
            LET rows == YoloKeptRows(output, conf_threshold[k], iou_threshold, detections[k].order)
            IN  \A n \in 1..Len(rows) :
                  (rows[n][3] >= 0 /\ rows[n][4] >= 0) =>
                      /\ RatLeq(detections[k].dets[n].x1, detections[k].dets[n].x2)
                      /\ RatLeq(detections[k].dets[n].y1, detections[k].dets[n].y2)

\* a rescaled detection from a row with w > 0 and h = 0 was returned
C15_Witness ==
    /\ decoder = "yolo"
    /\ original_shape # <<>>
    /\ detections[1].status = "ok"
    /\ \E n \in 1..Len(detections[1].dets) :
          /\ ~RatLeq(detections[1].dets[n].x2, detections[1].dets[n].x1)
          /\ detections[1].dets[n].y1 = detections[1].dets[n].y2

====
